---- MODULE Spec2Model ----
(***************************************************************************)
(* Model of spotify_vrc.py: the "Share" action of the Spotify VRC window   *)
(* (now-playing read, YouTube first-result lookup, clipboard write) and    *)
(* the overlay that shows "no track is playing" and fades out on timers.   *)
(*                                                                         *)
(* Python strings are sequences of one-character strings, so that strip,   *)
(* split, join, substring search and the regular expression are computed   *)
(* character by character.  Python's None is the value None below, which   *)
(* no sequence of characters equals.                                       *)
(***************************************************************************)
EXTENDS Integers, Sequences, FiniteSets, TLC

VARIABLES
    overlay,          \* App._overlay: id of the tracked Toplevel, 0 for None
    overlayAfterId,   \* App._overlay_after_id: a Tk after id, 0 for None
    fadeAfterId,      \* App._fade_after_id: a Tk after id, 0 for None
    windows,          \* overlay Toplevels that exist in Tk (ids)
    timers,           \* after-callbacks pending in Tk: [id, kind, win, i]
    nextWin,          \* Tk names every new Toplevel afresh
    nextTimer,        \* Tk names every new after id afresh ("after#N")
    clipboard,        \* the system clipboard's text
    last,             \* what the most recent share_song_url call did
    call              \* a call of one function studied on its own: [fn, arg, out]

vars == <<overlay, overlayAfterId, fadeAfterId, windows, timers, nextWin,
          nextTimer, clipboard, last, call>>

(***************************************************************************)
(* Bounds of the model.                                                    *)
(***************************************************************************)
MaxChunks == 3        \* a response body is at most this many chunks long
MaxArtistLen == 4     \* characters in a raw artist string
MaxSessions == 2      \* sessions in the list the media manager returns
MaxShows == 2         \* overlays created in one run of the window

None == <<"None">>

Range(s) == {s[i] : i \in 1..Len(s)}

RECURSIVE SeqsUpTo(_, _)
SeqsUpTo(S, n) ==
    IF n = 0 THEN {<<>>}
    ELSE LET shorter == SeqsUpTo(S, n - 1)
         IN  shorter \cup {Append(s, x) : s \in {t \in shorter : Len(t) = n - 1}, x \in S}

RECURSIVE Concat(_)
Concat(ss) == IF ss = <<>> THEN <<>> ELSE Head(ss) \o Concat(Tail(ss))

(***************************************************************************)
(* str.strip(): drop leading and trailing whitespace.                      *)
(***************************************************************************)
Whitespace == {" "}

RECURSIVE lstrip(_)
lstrip(s) == IF s # <<>> /\ Head(s) \in Whitespace THEN lstrip(Tail(s)) ELSE s

RECURSIVE rstrip(_)
rstrip(s) ==
    IF s # <<>> /\ s[Len(s)] \in Whitespace THEN rstrip(SubSeq(s, 1, Len(s) - 1)) ELSE s

strip(s) == rstrip(lstrip(s))

(***************************************************************************)
(* youtube_first_result_url: one GET, then the first watch?v= identifier.  *)
(***************************************************************************)
Marker == <<"w", "a", "t", "c", "h", "?", "v", "=">>
IdLen == 11
\* the members of [a-zA-Z0-9_-] that occur in the model's bodies
IdChars == {"a", "b", "c", "h", "t", "w", "v", "z", "1", "2", "3", "4", "5",
            "6", "7", "8", "9", "_", "-"}
UrlPrefix == <<"h", "t", "t", "p", "s", ":", "/", "/", "w", "w", "w", ".",
               "y", "o", "u", "t", "u", "b", "e", ".", "c", "o", "m", "/">> \o Marker

\* the regular expression watch\?v=([a-zA-Z0-9_-]{11}) matches at position i
MatchAt(text, i) ==
    /\ i + Len(Marker) + IdLen - 1 <= Len(text)
    /\ SubSeq(text, i, i + Len(Marker) - 1) = Marker
    /\ \A k \in (i + Len(Marker))..(i + Len(Marker) + IdLen - 1) : text[k] \in IdChars

GroupAt(text, i) == SubSeq(text, i + Len(Marker), i + Len(Marker) + IdLen - 1)

\* re.finditer: leftmost matches, left to right, none overlapping; group(1) of each
RECURSIVE finditer(_, _)
finditer(text, pos) ==
    IF pos > Len(text) THEN <<>>
    ELSE IF MatchAt(text, pos)
         THEN <<GroupAt(text, pos)>> \o finditer(text, pos + Len(Marker) + IdLen)
         ELSE finditer(text, pos + 1)

\* mutant: a later duplicate moves the identifier to the end of the list
RECURSIVE CollectIdsMoveToEnd(_, _)
CollectIdsMoveToEnd(ms, ids) ==
    IF ms = <<>> THEN ids
    ELSE CollectIdsMoveToEnd(Tail(ms),
             Append(SelectSeq(ids, LAMBDA x : x # Head(ms)), Head(ms)))

\* the loop of lines 53-56: append vid unless it is already in ids
RECURSIVE CollectIds(_, _)
CollectIds(ms, ids) ==
    IF ms = <<>> THEN ids
    ELSE CollectIds(Tail(ms), IF Head(ms) \in Range(ids) THEN ids ELSE Append(ids, Head(ms)))

\* mutant: the body is scanned whatever the status
ResolveIgnoringStatus(resp) ==
    IF resp.transport # "ok"
    THEN [raised |-> TRUE, excType |-> "RequestException", ret |-> None,
          requests |-> 1, scanned |-> FALSE]
    ELSE LET ids == CollectIds(finditer(resp.body, 1), <<>>)
         IN  [raised |-> FALSE, excType |-> "", requests |-> 1, scanned |-> TRUE,
              ret |-> IF ids = <<>> THEN None ELSE UrlPrefix \o ids[1]]

\* resp is what requests.get meets: a transport failure, or a status and a body
youtube_first_result_url(resp) ==
    IF resp.transport # "ok"
    THEN [raised |-> TRUE, excType |-> "RequestException", ret |-> None,
          requests |-> 1, scanned |-> FALSE]
    ELSE IF resp.status # 200
    THEN [raised |-> FALSE, excType |-> "", ret |-> None, requests |-> 1, scanned |-> FALSE]
    ELSE LET ids == CollectIds(finditer(resp.body, 1), <<>>)
         IN  [raised |-> FALSE, excType |-> "", requests |-> 1, scanned |-> TRUE,
              ret |-> IF ids = <<>> THEN None ELSE UrlPrefix \o ids[1]]

(***************************************************************************)
(* The artist normalisation of get_local_now_playing (lines 88 and 90).    *)
(***************************************************************************)
Separators == {";", "/"}

\* re.split(r"[;/]", s): the pieces between separators, empty pieces included
RECURSIVE resplit(_, _)
resplit(s, cur) ==
    IF s = <<>> THEN <<cur>>
    ELSE IF Head(s) \in Separators THEN <<cur>> \o resplit(Tail(s), <<>>)
    ELSE resplit(Tail(s), Append(cur, Head(s)))

\* ", ".join(parts)
RECURSIVE join(_)
join(parts) ==
    IF parts = <<>> THEN <<>>
    ELSE IF Len(parts) = 1 THEN parts[1]
    ELSE parts[1] \o <<",", " ">> \o join(Tail(parts))

RECURSIVE StripAll(_)
StripAll(parts) == IF parts = <<>> THEN <<>> ELSE <<strip(Head(parts))>> \o StripAll(Tail(parts))

\* [a.strip() for a in re.split(...) if a.strip()]
Segments(s) == SelectSeq(StripAll(resplit(s, <<>>)), LAMBDA a : a # <<>>)

\* mutant: the segments are joined without being trimmed
NormalizeArtistUntrimmed(raw) ==
    LET artist == strip(IF raw = None THEN <<>> ELSE raw)
        joined == join(SelectSeq(resplit(artist, <<>>), LAMBDA a : strip(a) # <<>>))
    IN  IF joined # <<>> THEN joined ELSE artist

\* raw is props.artist: None (or missing) or a string
NormalizeArtist(raw) ==
    LET artist == strip(IF raw = None THEN <<>> ELSE raw)
        joined == join(Segments(artist))
    IN  IF joined # <<>> THEN joined ELSE artist

(***************************************************************************)
(* get_local_now_playing.  env is what the host offers to one call:        *)
(*   importOk  whether winsdk (and asyncio) can be imported                *)
(*   failAt    the media-session call that raises when it is reached       *)
(*   excType   the type of the exception that call raises                  *)
(*   appids    source_app_user_model_id of each session, in list order:    *)
(*             a string, None, or Raises when reading the attribute raises *)
(*   current   the session get_current_session() returns: an index into    *)
(*             the list, or 0 for None                                     *)
(*   title, artist   the media properties of the session that is read      *)
(***************************************************************************)
Raises == <<"Raises">>
Spotify == <<"S", "p", "o", "t", "i", "f", "y">>
ApiCalls == {"request_async", "get_sessions", "get_current_session",
             "try_get_media_properties_async"}
ApiErrorTypes == {"OSError", "RuntimeError"}

\* Python's `needle in hay` for strings
Contains(hay, needle) ==
    \E i \in 1..(Len(hay) - Len(needle) + 1) : SubSeq(hay, i, i + Len(needle) - 1) = needle

\* mutant: the last matching session wins (the loop does not break)
RECURSIVE FirstSpotifyNoBreak(_, _)
FirstSpotifyNoBreak(appids, i) ==
    IF i > Len(appids) THEN 0
    ELSE LET appid == IF appids[i] \in {None, Raises} THEN <<>> ELSE appids[i]
             later == FirstSpotifyNoBreak(appids, i + 1)
         IN  IF later # 0 THEN later ELSE IF Contains(appid, Spotify) THEN i ELSE 0

\* the loop of lines 74-82: index of the session it breaks on, 0 for None
RECURSIVE FirstSpotify(_, _)
FirstSpotify(appids, i) ==
    IF i > Len(appids) THEN 0
    ELSE LET appid == IF appids[i] \in {None, Raises} THEN <<>> ELSE appids[i]
         IN  IF Contains(appid, Spotify) THEN i ELSE FirstSpotify(appids, i + 1)

ReadRaise(type) ==
    [raised |-> TRUE, excType |-> type, ret |-> <<None, None>>, session |-> 0,
     fetched |-> FALSE]

ReadReturn(ret, session, fetched) ==
    [raised |-> FALSE, excType |-> "", ret |-> ret, session |-> session,
     fetched |-> fetched]

get_local_now_playing(env) ==
    IF ~env.importOk THEN ReadRaise("RuntimeError")
    ELSE IF env.failAt = "request_async" THEN ReadRaise(env.excType)
    ELSE IF env.failAt = "get_sessions" THEN ReadRaise(env.excType)
    ELSE LET spotify_session == FirstSpotify(env.appids, 1)
         IN  IF spotify_session = 0 /\ env.failAt = "get_current_session"
             THEN ReadRaise(env.excType)
             ELSE LET session == IF spotify_session # 0 THEN spotify_session
                                 ELSE env.current
                  IN  IF session = 0 THEN ReadReturn(<<None, None>>, 0, FALSE)
                      ELSE IF env.failAt = "try_get_media_properties_async"
                      THEN ReadRaise(env.excType)
                      ELSE ReadReturn(
                               <<strip(IF env.title = None THEN <<>> ELSE env.title),
                                 NormalizeArtist(env.artist)>>,
                               session, TRUE)

(***************************************************************************)
(* The overlay.  st is the part of the window's state the overlay code     *)
(* reads and writes.  A Tk call that the code wraps in try/except (the     *)
(* after_cancel and destroy of _hide_overlay, the -alpha attribute, the    *)
(* geometry) cannot leave the function; after_cancel removes the pending   *)
(* callback with that id if there is one, and destroy removes the window.  *)
(* The calls of _show_overlay outside any try can raise; failAt says where.*)
(***************************************************************************)
Steps == 10
NoTrackText == <<"no track is playing">>
OverlayFailPoints == {"none", "create", "configure", "after"}

OverlayState ==
    [overlay |-> overlay, overlayAfterId |-> overlayAfterId, fadeAfterId |-> fadeAfterId,
     windows |-> windows, timers |-> timers, nextWin |-> nextWin, nextTimer |-> nextTimer]

_hide_overlay(st) ==
    [st EXCEPT !.timers = {t \in st.timers : t.id \notin {st.overlayAfterId, st.fadeAfterId}},
               !.overlayAfterId = 0,
               !.fadeAfterId = 0,
               !.windows = st.windows \ {st.overlay},
               !.overlay = 0]

\* the result of _show_overlay: the state it leaves and whether it raised
_show_overlay(st, text, failAt) ==
    LET hidden == _hide_overlay(st)
        w == hidden.nextWin
        created == [hidden EXCEPT !.windows = hidden.windows \cup {w}, !.nextWin = w + 1]
        assigned == [created EXCEPT !.overlay = w]
        scheduled == [assigned EXCEPT
                         !.overlayAfterId = assigned.nextTimer,
                         !.timers = assigned.timers \cup
                             {[id |-> assigned.nextTimer, kind |-> "hold", win |-> w, i |-> 1]},
                         !.nextTimer = assigned.nextTimer + 1]
    IN  CASE failAt = "create"    -> [st |-> hidden, raised |-> TRUE]     \* lines 201-204
          [] failAt = "configure" -> [st |-> created, raised |-> TRUE]    \* lines 205-250
          [] failAt = "after"     -> [st |-> assigned, raised |-> TRUE]   \* line 273
          [] OTHER                -> [st |-> scheduled, raised |-> FALSE]

\* _fade_step(i) run by the timer t that has just fired; Tk has removed t
_fade_step(st, t, afterFails) ==
    LET fired == [st EXCEPT !.timers = st.timers \ {t}]
    IN  IF t.i < Steps /\ ~afterFails
        THEN [fired EXCEPT
                 !.fadeAfterId = fired.nextTimer,
                 !.timers = fired.timers \cup
                     {[id |-> fired.nextTimer, kind |-> "fade", win |-> t.win, i |-> t.i + 1]},
                 !.nextTimer = fired.nextTimer + 1]
        ELSE _hide_overlay(fired)

(***************************************************************************)
(* share_song_url.  Tk's clipboard_append adds to what the clipboard holds *)
(* (which is why the code clears first); cf names the clipboard call that  *)
(* raises, if any.  messagebox.showerror is taken to show its dialog and   *)
(* return.  An event is <<operation, argument>>, in the order the code     *)
(* performs the operations.                                                *)
(***************************************************************************)
ClipFailures == {"none", "clear", "append"}

Ev(op, arg) == << <<op, arg>> >>

\* mutant: only a missing title (None) counts as nothing playing
NotTrackNoneOnly(track) == track = None

\* Python's `not track`
NotTrack(track) == track \in {None, <<>>}

\* mutant: the query keeps its surrounding whitespace
BuildQueryUnstripped(track, artist) == track \o <<" ">> \o artist

\* f"{track} {artist}".strip()
BuildQuery(track, artist) == strip(track \o <<" ">> \o artist)

\* mutant: clipboard_append without the clipboard_clear before it
ClipboardWriteNoClear(clip, url, cf) ==
    IF cf = "append"
    THEN [clip |-> clip, raised |-> TRUE, events |-> Ev("clipboard_append", url)]
    ELSE [clip |-> clip \o url, raised |-> FALSE, events |-> Ev("clipboard_append", url)]

\* lines 291-292
ClipboardWrite(clip, url, cf) ==
    IF cf = "clear"
    THEN [clip |-> clip, raised |-> TRUE, events |-> Ev("clipboard_clear", <<>>)]
    ELSE IF cf = "append"
    THEN [clip |-> <<>>, raised |-> TRUE,
          events |-> Ev("clipboard_clear", <<>>) \o Ev("clipboard_append", url)]
    ELSE [clip |-> <<>> \o url, raised |-> FALSE,
          events |-> Ev("clipboard_clear", <<>>) \o Ev("clipboard_append", url)]

\* the except clause of lines 293-294
ErrorDialog(excType) == Ev("showerror", <<"Error", excType>>)

ShareResult(st, clip, events, failure, rd, url, requests) ==
    [st |-> st, clip |-> clip, events |-> events, failure |-> failure,
     readRaised |-> rd.raised, track |-> rd.ret[1],
     artist |-> rd.ret[2], url |-> url, requests |-> requests]

share_song_url(st, clip, renv, resp, cf, ofp) ==
    LET rd == get_local_now_playing(renv)
        eRead == Ev("read", <<>>)
    IN  IF rd.raised
        THEN ShareResult(st, clip,
                 eRead \o Ev("read_raise", rd.excType) \o ErrorDialog(rd.excType),
                 "media", rd, None, 0)
        ELSE IF NotTrack(rd.ret[1])
        THEN LET so == _show_overlay(st, NoTrackText, ofp)
                 eShow == eRead \o Ev("read_return", rd.ret) \o Ev("show_overlay", NoTrackText)
             IN  IF so.raised
                 THEN ShareResult(so.st, clip, eShow \o ErrorDialog("TclError"),
                          "overlay", rd, None, 0)
                 ELSE ShareResult(so.st, clip, eShow, "none", rd, None, 0)
        ELSE LET query == BuildQuery(rd.ret[1], rd.ret[2])
                 rs == youtube_first_result_url(resp)
                 eGet == eRead \o Ev("read_return", rd.ret) \o Ev("http_get", query)
             IN  IF rs.raised
                 THEN ShareResult(st, clip,
                          eGet \o Ev("http_raise", rs.excType) \o ErrorDialog(rs.excType),
                          "transport", rd, None, rs.requests)
                 ELSE IF rs.ret \in {None, <<>>}
                 THEN ShareResult(st, clip,
                          eGet \o Ev("http_return", rs.ret) \o Ev("showerror", <<"NoResult">>),
                          "nomatch", rd, rs.ret, rs.requests)
                 ELSE LET cw == ClipboardWrite(clip, rs.ret, cf)
                          eClip == eGet \o Ev("http_return", rs.ret) \o cw.events
                      IN  IF cw.raised
                          THEN ShareResult(st, cw.clip, eClip \o ErrorDialog("TclError"),
                                   "clipboard", rd, rs.ret, rs.requests)
                          ELSE ShareResult(st, cw.clip, eClip, "none", rd, rs.ret,
                                   rs.requests)

(***************************************************************************)
(* What the host can offer to the calls.                                   *)
(***************************************************************************)
Env(importOk, failAt, excType, appids, current, title, artist) ==
    [importOk |-> importOk, failAt |-> failAt, excType |-> excType, appids |-> appids,
     current |-> current, title |-> title, artist |-> artist]

SpotifyExe == Spotify \o <<".", "e", "x", "e">>
SpotifyStore == <<"A", "B", ".">> \o Spotify \o <<"M", "u", "s", "i", "c">>
SpotifyLower == <<"s", "p", "o", "t", "i", "f", "y">>
Chrome == <<"c", "h", "r", "o", "m", "e">>
AppIds == {None, Raises, SpotifyExe, SpotifyStore, SpotifyLower, Chrome}

Id1 == <<"a", "b", "c", "1", "2", "3", "4", "5", "6", "7", "8">>
Id2 == <<"z", "z", "z", "9", "8", "7", "6", "5", "4", "3", "2">>
Chunks == {Marker \o Id1, Marker \o Id2, Marker, Id2, <<"&">>}
Bodies == {Concat(cs) : cs \in SeqsUpTo(Chunks, MaxChunks)}
Statuses == {200, 204, 404, 500}

Response(transport, status, body) ==
    [transport |-> transport, status |-> status, body |-> body]

Responses ==
    {Response("ok", st, b) : st \in Statuses, b \in Bodies}
        \cup {Response("fail", 0, <<>>)}

ArtistAlphabet == {"A", "B", " ", ";", "/"}
RawArtists == {None} \cup SeqsUpTo(ArtistAlphabet, MaxArtistLen)

ReadEnvs ==
    {Env(ok, f, x, ids, cur, t, <<"A", ";", "B">>) :
        ok \in BOOLEAN, f \in ApiCalls \cup {"none"}, x \in ApiErrorTypes,
        ids \in SeqsUpTo(AppIds, MaxSessions), cur \in 0..MaxSessions,
        t \in {None, <<"S">>}}

ValidReadEnvs == {e \in ReadEnvs : e.current <= Len(e.appids)}

\* the inputs of the share action in the model of the whole window
AppReadEnvs ==
    {Env(FALSE, "none", "OSError", <<>>, 0, None, None),
     Env(TRUE, "request_async", "OSError", <<>>, 0, None, None),
     Env(TRUE, "none", "OSError", <<Chrome>>, 0, None, None),
     Env(TRUE, "none", "OSError", <<SpotifyExe>>, 0, <<" ">>, <<>>),
     Env(TRUE, "none", "OSError", <<Chrome, SpotifyExe>>, 1, <<"S">>, <<"A", ";", "B">>),
     Env(TRUE, "none", "OSError", <<Chrome>>, 1, <<"S">>, None)}

NoResponse == Response("fail", 0, <<>>)

AppResponses ==
    {NoResponse,
     Response("ok", 404, Marker \o Id1),
     Response("ok", 200, <<"&">>),
     Response("ok", 200, Marker \o Id1),
     Response("ok", 200, Marker \o Id2 \o Marker \o Id1)}

\* an input the action never reads is held at one value
Relevant(in) ==
    LET rd == get_local_now_playing(in.renv)
        toOverlay == ~rd.raised /\ NotTrack(rd.ret[1])
        toHttp == ~rd.raised /\ ~NotTrack(rd.ret[1])
        rs == youtube_first_result_url(in.resp)
        toClip == toHttp /\ ~rs.raised /\ rs.ret \notin {None, <<>>}
    IN  /\ toOverlay \/ in.ofp = "none"
        /\ toHttp \/ in.resp = NoResponse
        /\ toClip \/ in.cf = "none"

ShareInputs ==
    {in \in [renv : AppReadEnvs, resp : AppResponses, cf : ClipFailures,
             ofp : OverlayFailPoints] : Relevant(in)}

(***************************************************************************)
(* The window: the state after App.__init__, the Share button and the      *)
(* timer callbacks.                                                        *)
(***************************************************************************)
OldClip == <<"o", "l", "d">>

NoShare ==
    [ran |-> FALSE, events |-> <<>>, failure |-> "none", readRaised |-> FALSE,
     track |-> None, artist |-> None, url |-> None, requests |-> 0,
     clipBefore |-> <<>>, cf |-> "none", ofp |-> "none", created |-> FALSE]

NoCall == [fn |-> "none", arg |-> <<>>, done |-> FALSE, out |-> <<>>]

InitWindow ==
    /\ overlay = 0
    /\ overlayAfterId = 0
    /\ fadeAfterId = 0
    /\ windows = {}
    /\ timers = {}
    /\ nextWin = 1
    /\ nextTimer = 1
    /\ last = NoShare

Init ==
    /\ InitWindow
    /\ clipboard = OldClip
    /\ call = NoCall

SetOverlayState(st) ==
    /\ overlay' = st.overlay
    /\ overlayAfterId' = st.overlayAfterId
    /\ fadeAfterId' = st.fadeAfterId
    /\ windows' = st.windows
    /\ timers' = st.timers
    /\ nextWin' = st.nextWin
    /\ nextTimer' = st.nextTimer

\* the Share button is pressed and share_song_url runs to its end
ShareSongUrl ==
    \E in \in ShareInputs :
      \E r \in {share_song_url(OverlayState, clipboard, in.renv, in.resp, in.cf, in.ofp)} :
            /\ r.st.nextWin <= MaxShows + 1
            /\ SetOverlayState(r.st)
            /\ clipboard' = r.clip
            /\ last' = [ran |-> TRUE, events |-> r.events, failure |-> r.failure,
                        readRaised |-> r.readRaised, track |-> r.track,
                        artist |-> r.artist, url |-> r.url, requests |-> r.requests,
                        clipBefore |-> clipboard, cf |-> in.cf, ofp |-> in.ofp,
                        created |-> r.st.nextWin > nextWin]
            /\ UNCHANGED call

\* a pending after-callback fires: the hold timer or a fade step
TimerFires ==
    \E t \in timers, afterFails \in BOOLEAN :
      \E st \in {_fade_step(OverlayState, t, afterFails)} :
        /\ SetOverlayState(st)
        /\ UNCHANGED <<clipboard, last, call>>

Next == ShareSongUrl \/ TimerFires

Spec == Init /\ [][Next]_vars

(***************************************************************************)
(* The functions on their own: Init draws the input, the action calls.     *)
(***************************************************************************)
InitCall(fn, args) ==
    /\ InitWindow
    /\ clipboard = OldClip
    /\ call \in {[fn |-> fn, arg |-> a, done |-> FALSE, out |-> <<>>] : a \in args}

Apply(fn, out) ==
    /\ call.fn = fn
    /\ ~call.done
    /\ call' = [call EXCEPT !.done = TRUE, !.out = out]
    /\ UNCHANGED <<overlay, overlayAfterId, fadeAfterId, windows, timers, nextWin,
                   nextTimer, clipboard, last>>

InitResolve == InitCall("resolve", Responses)
CallResolve == Apply("resolve", youtube_first_result_url(call.arg))
SpecResolve == InitResolve /\ [][CallResolve]_vars

InitArtist == InitCall("artist", RawArtists)
CallNormalize == Apply("artist", NormalizeArtist(call.arg))
SpecArtist == InitArtist /\ [][CallNormalize]_vars

InitRead == InitCall("read", ValidReadEnvs)
CallRead == Apply("read", get_local_now_playing(call.arg))
SpecRead == InitRead /\ [][CallRead]_vars

(***************************************************************************)
(* Properties.                                                             *)
(***************************************************************************)
Has(evs, op) == \E i \in 1..Len(evs) : evs[i][1] = op
Count(evs, op) == Cardinality({i \in 1..Len(evs) : evs[i][1] = op})
Pos(evs, op) == CHOOSE i \in 1..Len(evs) : evs[i][1] = op
Min(S) == CHOOSE x \in S : \A y \in S : x <= y

ReadReturned == last.ran /\ ~last.readRaised
NothingPlaying == ReadReturned /\ last.track \in {None, <<>>}
TrackPlaying == ReadReturned /\ last.track \notin {None, <<>>}

\* C1: when the read returns an empty or missing title, the share action calls
\* the overlay with "no track is playing", sends no HTTP request and leaves the
\* clipboard alone.
C1_NothingPlayingShowsOverlayOnly ==
    NothingPlaying =>
        /\ \E i \in 1..Len(last.events) :
              last.events[i][1] = "show_overlay" /\ last.events[i][2] = NoTrackText
        /\ ~Has(last.events, "http_get")
        /\ last.requests = 0
        /\ ~Has(last.events, "clipboard_clear")
        /\ ~Has(last.events, "clipboard_append")
        /\ clipboard = last.clipBefore

C1_Witness ==
    /\ NothingPlaying
    /\ last.track = <<>>
    /\ last.ofp = "none"
    /\ overlay # 0
    /\ last.clipBefore = OldClip

\* C2: every failure inside the share action ends in exactly one indicator on
\* screen (an overlay window created by the action, or an error dialog), never
\* none and never two.
C2_ExactlyOneSignalPerFailure ==
    (last.ran /\ last.failure # "none") =>
        Count(last.events, "showerror") + (IF last.created THEN 1 ELSE 0) = 1

Matches(body) == {i \in 1..Len(body) : MatchAt(body, i)}

\* C3: on status 200 the resolver returns the watch URL of the leftmost match of
\* watch?v= followed by 11 identifier characters, whatever repeats after it, and
\* returns None exactly when the body holds no match.
C3_FirstMatchWins ==
    (call.fn = "resolve" /\ call.done /\ call.arg.transport = "ok"
        /\ call.arg.status = 200) =>
        /\ ~call.out.raised
        /\ (call.out.ret = None) <=> (Matches(call.arg.body) = {})
        /\ Matches(call.arg.body) # {} =>
              call.out.ret = UrlPrefix \o GroupAt(call.arg.body, Min(Matches(call.arg.body)))

C3_Witness ==
    /\ call.fn = "resolve"
    /\ call.done
    /\ call.arg.status = 200
    /\ call.arg.body = Marker \o Id1 \o Marker \o Id2 \o Marker \o Id1
    /\ call.out.ret = UrlPrefix \o Id1

\* C4: on any status other than 200 the resolver returns None without raising
\* and without scanning the body, after exactly one request.
C4_Non200IsNotFound ==
    (call.fn = "resolve" /\ call.done /\ call.arg.transport = "ok"
        /\ call.arg.status # 200) =>
        /\ call.out.ret = None
        /\ ~call.out.raised
        /\ ~call.out.scanned
        /\ call.out.requests = 1

C4_Witness ==
    /\ call.fn = "resolve"
    /\ call.done
    /\ call.arg.status = 404
    /\ Matches(call.arg.body) # {}
    /\ call.out.ret = None

\* the segments of s read off the positions of its separators, each cut down to
\* the span between its first and last non-blank character, blank ones dropped
SepPositions(s) == {i \in 1..Len(s) : s[i] \in Separators}
Cuts(s) == {0, Len(s) + 1} \cup SepPositions(s)
Trimmed(s, lo, hi) ==
    LET solid == {k \in lo..hi : s[k] \notin Whitespace}
    IN  IF solid = {} THEN <<>>
        ELSE SubSeq(s, Min(solid), CHOOSE k \in solid : \A j \in solid : j <= k)

RECURSIVE ExpectedSegmentsFrom(_, _)
ExpectedSegmentsFrom(s, from) ==
    IF from > Len(s) + 1 THEN <<>>
    ELSE LET to == Min({c \in Cuts(s) : c >= from})
             seg == Trimmed(s, from, to - 1)
         IN  (IF seg = <<>> THEN <<>> ELSE <<seg>>) \o ExpectedSegmentsFrom(s, to + 1)

RECURSIVE CommaSpaceJoined(_)
CommaSpaceJoined(segs) ==
    IF Len(segs) <= 1 THEN Concat(segs)
    ELSE CommaSpaceJoined(SubSeq(segs, 1, Len(segs) - 1)) \o <<",", " ">> \o segs[Len(segs)]

HasSeparator(s) == SepPositions(s) # {}
Plain(s) == ~HasSeparator(s) /\ (s = <<>> \/ (s[1] \notin Whitespace /\ s[Len(s)] \notin Whitespace))
ArtistCalled == call.fn = "artist" /\ call.done /\ call.arg # None

\* C5 as stated: an artist string with a separator becomes the comma-space join
\* of its trimmed non-empty segments, and a plain one comes back unchanged.
C5_JoinOfSegments ==
    ArtistCalled =>
        /\ HasSeparator(call.arg) =>
              call.out = CommaSpaceJoined(ExpectedSegmentsFrom(call.arg, 1))
        /\ Plain(call.arg) => call.out = call.arg

\* C5 amended: the same, except that when no segment is left after trimming the
\* stripped artist string itself is returned.
C5_JoinOfSegmentsOrRaw ==
    ArtistCalled =>
        /\ HasSeparator(call.arg) =>
              call.out = IF ExpectedSegmentsFrom(call.arg, 1) # <<>>
                         THEN CommaSpaceJoined(ExpectedSegmentsFrom(call.arg, 1))
                         ELSE strip(call.arg)
        /\ Plain(call.arg) => call.out = call.arg

C5_Witness ==
    /\ ArtistCalled
    /\ call.arg = <<"A", " ", ";", "B">>
    /\ call.out = <<"A", ",", " ", "B">>

SpotifySessions(appids) ==
    {i \in 1..Len(appids) : appids[i] \notin {None, Raises} /\ Contains(appids[i], Spotify)}
ExpectedSession(env) ==
    IF SpotifySessions(env.appids) # {} THEN Min(SpotifySessions(env.appids)) ELSE env.current
ReadCalled == call.fn = "read" /\ call.done

\* C6: the session read is the first one in list order whose application id
\* contains "Spotify" (a missing or raising id does not match), else the current
\* session, else none; with none the result is (None, None) and no media
\* properties are fetched.
C6_SessionPriority ==
    ReadCalled =>
        /\ ~call.out.raised =>
              /\ call.out.session = ExpectedSession(call.arg)
              /\ call.out.fetched <=> ExpectedSession(call.arg) # 0
              /\ ExpectedSession(call.arg) = 0 => call.out.ret = <<None, None>>
        /\ (call.arg.importOk /\ call.arg.failAt = "try_get_media_properties_async"
              /\ ExpectedSession(call.arg) = 0) => ~call.out.raised
        /\ (call.arg.importOk /\ call.arg.failAt = "get_current_session"
              /\ SpotifySessions(call.arg.appids) # {}) => ~call.out.raised

C6_Witness ==
    /\ ReadCalled
    /\ call.arg.appids = <<Raises, SpotifyStore>>
    /\ call.arg.current = 1
    /\ ~call.out.raised
    /\ call.out.session = 2

NoIndicator == ~Has(last.events, "show_overlay") /\ ~Has(last.events, "showerror")
InOrder ==
    /\ Count(last.events, "http_get") = 1
    /\ Pos(last.events, "read_return") < Pos(last.events, "http_get")
    /\ Pos(last.events, "http_get") < Pos(last.events, "http_return")
    /\ \A i \in 1..Len(last.events) :
          last.events[i][1] \in {"clipboard_clear", "clipboard_append"} =>
              Pos(last.events, "http_return") < i
ExpectedQuery ==
    IF last.artist = <<>> THEN last.track ELSE last.track \o <<" ">> \o last.artist
Resolved == TrackPlaying /\ last.url \notin {None, <<>>}

Failing(env) ==
    \/ ~env.importOk
    \/ env.failAt \in {"request_async", "get_sessions"}
    \/ env.failAt = "get_current_session" /\ SpotifySessions(env.appids) = {}
    \/ env.failAt = "try_get_media_properties_async" /\ ExpectedSession(env) # 0

\* C8: every failure of the media-session API inside get_local_now_playing is
\* raised as one and the same exception type (the one raised when the package
\* is missing) and never returned as the empty result; no session at all is
\* returned as the empty result and never raised.
C8_OneFailureKind ==
    ReadCalled =>
        /\ Failing(call.arg) => call.out.raised
        /\ call.out.raised => call.out.excType = "RuntimeError"
        /\ (~Failing(call.arg) /\ ExpectedSession(call.arg) = 0) =>
              ~call.out.raised /\ call.out.ret = <<None, None>>

\* C9 as stated: after a share action the clipboard holds what it held before or
\* the resolved URL, and after one that ends in an error dialog it holds what it
\* held before.
C9_ClipboardOldOrUrl ==
    last.ran =>
        /\ clipboard = last.clipBefore \/ clipboard = last.url
        /\ Has(last.events, "showerror") => clipboard = last.clipBefore

\* C9 amended: the clipboard holds what it held before, the resolved URL, or
\* nothing; after an error dialog it holds what it held before, except that a
\* clipboard_append that raises after clipboard_clear leaves it empty.
C9_ClipboardOldUrlOrEmpty ==
    last.ran =>
        /\ clipboard = last.clipBefore \/ clipboard = last.url \/ clipboard = <<>>
        /\ Has(last.events, "showerror") =>
              clipboard = IF Has(last.events, "clipboard_append") THEN <<>>
                          ELSE last.clipBefore

C9_Witness ==
    /\ last.ran
    /\ last.failure = "clipboard"
    /\ last.cf = "append"
    /\ last.clipBefore = OldClip
    /\ clipboard = <<>>

\* C10 (safety part): at most one overlay window exists, at most one overlay
\* timer is pending, and a pending timer belongs to the overlay now shown.
C10_OneOverlayOneTimer ==
    /\ Cardinality(windows) <= 1
    /\ Cardinality(timers) <= 1
    /\ \A t \in timers : t.win = overlay

\* The timer bookkeeping on its own: a pending callback is the one the window
\* tracks (the hold timer in _overlay_after_id, a fade step in _fade_after_id)
\* and it belongs to the tracked overlay, which exists.
TimersTracked ==
    /\ Cardinality(timers) <= 1
    /\ \A t \in timers :
          /\ t.win = overlay
          /\ t.win \in windows
          /\ t.id = IF t.kind = "hold" THEN overlayAfterId ELSE fadeAfterId

====
